---- MODULE Spec2Model ----
(***************************************************************************)
(* Model of the prompt-injection scanner of src/src/App.tsx: the rule      *)
(* catalog INJECTION_PATTERNS, the analyzer analyzeContent, and the App    *)
(* component that runs a scan behind a progress timer (simulateScan).      *)
(*                                                                         *)
(* A JavaScript string is a sequence of UTF-16 code units, so a text is a  *)
(* sequence of integers here ("a" = 97, "\n" = 10, U+0130 = 304).  Offsets *)
(* are 0-based as in JavaScript; element i of a text is text[i + 1].       *)
(***************************************************************************)
EXTENDS Integers, Sequences, FiniteSets

VARIABLES
  content,   \* the text given to analyzeContent
  result,    \* the ScanResult it returned (Null before the call)
  op,        \* the last step: "init", "analyze" or "add"
  edit,      \* the last edit of the text: where, what, and the score before it
  lastIndex, \* the matching state (lastIndex) of each RegExp of the catalog
  calls,     \* the analyzeContent calls in progress, one per caller
  status,    \* App: 'idle', 'scanning' or 'complete'
  progress,  \* App: the progress shown, 0..100
  timers,    \* the setInterval timers simulateScan has created
  readers,   \* the FileReaders whose onload has not fired yet
  textInput, \* App: the text of the textarea
  urlInput   \* App: the text of the URL field

callVars == <<lastIndex, calls>>
uiVars == <<status, progress, timers, readers, textInput, urlInput>>
vars == <<content, result, op, edit, lastIndex, calls, status, progress, timers, readers,
          textInput, urlInput>>

(***************************************************************************)
(* Bounds of the model.                                                    *)
(***************************************************************************)
\* a short input is made of at most MaxFrags fragments
MaxFrags == 3
\* a long input is a padding of PadLen times one character followed by at
\* most MaxPadFrags fragments
PadLen == 199
MaxPadFrags == 1
\* an edited input is made of at most MaxEditFrags fragments
MaxEditFrags == 2

Max(a, b) == IF a > b THEN a ELSE b
Min(a, b) == IF a < b THEN a ELSE b

(***************************************************************************)
(* The JavaScript string and RegExp primitives analyzeContent calls.       *)
(***************************************************************************)
\* String.prototype.slice(start, end) for 0 <= start, 0 <= end
Slice(s, start, end) ==
  LET a == Min(start, Len(s))
      b == Min(end, Len(s))
  IN  IF a >= b THEN <<>> ELSE SubSeq(s, a + 1, b)

\* the least element of a non-empty set of integers
Least(S) == CHOOSE x \in S : \A y \in S : x <= y

\* the greatest element of a non-empty set of integers
Greatest(S) == CHOOSE x \in S : \A y \in S : x >= y

RECURSIVE FlattenRange(_, _, _)
\* concatenation of the sequences ss[a], ..., ss[b] (by halves)
FlattenRange(ss, a, b) ==
  IF a > b THEN <<>>
  ELSE IF a = b THEN ss[a]
  ELSE LET mid == (a + b) \div 2
       IN  FlattenRange(ss, a, mid) \o FlattenRange(ss, mid + 1, b)

\* concatenation of a sequence of sequences
Flatten(ss) == FlattenRange(ss, 1, Len(ss))

\* String.prototype.toLowerCase of one code unit: ASCII letters fold to the
\* letter 32 above; U+0130 (capital I with dot above) becomes the two units
\* U+0069 U+0307 (SpecialCasing.txt), so the result can be longer than the input
LowerUnit(c) ==
  IF c >= 65 /\ c <= 90 THEN <<c + 32>>
  ELSE IF c = 304 THEN <<105, 775>>
  ELSE <<c>>

\* String.prototype.toLowerCase
toLowerCase(s) == Flatten([i \in 1..Len(s) |-> LowerUnit(s[i])])

\* does needle occur in hay at 0-based offset i
OccursAt(hay, needle, i) ==
  /\ i + Len(needle) <= Len(hay)
  /\ \A j \in 1..Len(needle) : hay[i + j] = needle[j]

\* String.prototype.indexOf(needle): offset of the first occurrence, or -1
indexOf(hay, needle) ==
  LET found == {i \in 0..(Len(hay) - Len(needle)) : OccursAt(hay, needle, i)}
  IN  IF found = {} THEN -1 ELSE Least(found)

\* String.prototype.replace(/\n/g, ' ')
ReplaceNewlines(s) == [i \in 1..Len(s) |-> IF s[i] = 10 THEN 32 ELSE s[i]]

\* Canonicalize of a RegExp with the i flag and without the u flag: a code
\* unit is compared by its toUpperCase; of the units used here only a..z change
Canonicalize(c) == IF c >= 97 /\ c <= 122 THEN c - 32 ELSE c

\* \s : WhiteSpace and LineTerminator
IsSpace(c) ==
  \/ c \in {9, 10, 11, 12, 13, 32, 160, 5760, 8232, 8233, 8239, 8287, 12288, 65279}
  \/ (c >= 8192 /\ c <= 8202)

\* . : anything but a LineTerminator
IsDot(c) == c \notin {10, 13, 8232, 8233}

\* \w : [A-Za-z0-9_]
IsWordChar(c) ==
  \/ (c >= 48 /\ c <= 57)
  \/ (c >= 65 /\ c <= 90)
  \/ (c >= 97 /\ c <= 122)
  \/ c = 95

\* membership in the character classes the catalog uses
InClass(cls, c) ==
  CASE cls = "dot" -> IsDot(c)
    [] cls = "space" -> IsSpace(c)
    [] cls = "space_-" -> IsSpace(c) \/ c = 95 \/ c = 45

\* \b at 0-based offset pos: exactly one of the neighbours is a word character
IsWordBoundary(text, pos) ==
  LET before == pos >= 1 /\ IsWordChar(text[pos])
      after == pos < Len(text) /\ IsWordChar(text[pos + 1])
  IN  before # after

\* the literal s matches the text at offset pos, ignoring case
LitAt(text, pos, s) ==
  /\ pos + Len(s) <= Len(text)
  /\ \A j \in 1..Len(s) : Canonicalize(text[pos + j]) = Canonicalize(s[j])

\* end of the longest run of characters of class cls that starts at offset pos
RunEnd(cls, text, pos) ==
  Least({e \in pos..Len(text) : e = Len(text) \/ ~InClass(cls, text[e + 1])})

RECURSIVE MatchFrom(_, _, _, _), TryAlts(_, _, _, _, _), TryStar(_, _, _, _, _)
\* backtracking match of the pattern items k.. at offset pos: the end offset
\* of the first match in the engine's priority order, or -1
MatchFrom(items, k, text, pos) ==
  IF k > Len(items) THEN pos
  ELSE LET it == items[k] IN
    CASE it.t = "lit" ->
           IF LitAt(text, pos, it.s) THEN MatchFrom(items, k + 1, text, pos + Len(it.s))
           ELSE -1
      [] it.t = "alt" -> TryAlts(items, k, text, pos, 1)
      [] it.t = "opt" ->
           LET taken == IF LitAt(text, pos, it.s)
                        THEN MatchFrom(items, k + 1, text, pos + Len(it.s))
                        ELSE -1
           IN  IF taken # -1 THEN taken ELSE MatchFrom(items, k + 1, text, pos)
      [] it.t = "optclass" ->
           LET taken == IF pos < Len(text) /\ InClass(it.cls, text[pos + 1])
                        THEN MatchFrom(items, k + 1, text, pos + 1)
                        ELSE -1
           IN  IF taken # -1 THEN taken ELSE MatchFrom(items, k + 1, text, pos)
      [] it.t = "star" -> TryStar(items, k, text, pos, RunEnd(it.cls, text, pos))
      [] it.t = "wordb" ->
           IF IsWordBoundary(text, pos) THEN MatchFrom(items, k + 1, text, pos) ELSE -1

\* alternation: the alternatives are tried left to right
TryAlts(items, k, text, pos, a) ==
  IF a > Len(items[k].alts) THEN -1
  ELSE LET w == items[k].alts[a]
           taken == IF LitAt(text, pos, w)
                    THEN MatchFrom(items, k + 1, text, pos + Len(w))
                    ELSE -1
       IN  IF taken # -1 THEN taken ELSE TryAlts(items, k, text, pos, a + 1)

\* greedy star over the run pos..e: the longest repetition after which the
\* rest of the pattern matches wins
TryStar(items, k, text, pos, e) ==
  LET ok == {x \in pos..e : MatchFrom(items, k + 1, text, x) # -1}
  IN  IF ok = {} THEN -1 ELSE MatchFrom(items, k + 1, text, Greatest(ok))

\* the span of the match at the least of the offsets starts, <<>> when none
FirstSpan(pattern, text, starts) ==
  IF starts = {} THEN <<>>
  ELSE <<Least(starts), MatchFrom(pattern, 1, text, Least(starts))>>

\* RegExp.prototype.exec with lastIndex = from: the first offset >= from at
\* which the pattern matches, as <<start, end>>, or <<>> when there is none
ExecFrom(pattern, text, from) ==
  FirstSpan(pattern, text, {i \in from..Len(text) : MatchFrom(pattern, 1, text, i) # -1})

RECURSIVE MatchSpans(_, _, _), SpansAfter(_, _, _)
\* the spans of the successive matches of a global search from lastIndex = from
MatchSpans(pattern, text, from) == SpansAfter(pattern, text, ExecFrom(pattern, text, from))

\* the span m of one match, then the search goes on from lastIndex = its end
\* (after an empty match lastIndex advances by one)
SpansAfter(pattern, text, m) ==
  IF m = <<>> THEN <<>>
  ELSE <<m>> \o MatchSpans(pattern, text, IF m[2] = m[1] THEN m[2] + 1 ELSE m[2])

\* the substrings of the text at the spans
Substrings(text, spans) == [n \in 1..Len(spans) |-> Slice(text, spans[n][1], spans[n][2])]

\* content.match(new RegExp(pattern, 'gi')): the matched substrings, in text
\* order; null (no match) is the empty sequence
match(text, pattern) == Substrings(text, MatchSpans(pattern, text, 0))

(***************************************************************************)
(* The rule catalog.  A pattern is the sequence of the items of its        *)
(* regular expression: a literal, an optional literal group (x)?, an       *)
(* alternation of literals (x|y|z), a starred class, an optional class,    *)
(* the assertion \b.                                                       *)
(***************************************************************************)
INJECTION_PATTERNS ==
  <<
    \* 1: /ignore (all )?(previous|prior|above) instructions/i
    [pattern |-> <<[t |-> "lit", s |-> <<105, 103, 110, 111, 114, 101, 32>>],
                   [t |-> "opt", s |-> <<97, 108, 108, 32>>],
                   [t |-> "alt", alts |-> <<<<112, 114, 101, 118, 105, 111, 117, 115>>, <<112, 114, 105, 111, 114>>, <<97, 98, 111, 118, 101>>>>],
                   [t |-> "lit", s |-> <<32, 105, 110, 115, 116, 114, 117, 99, 116, 105, 111, 110, 115>>]>>,
     type |-> "Instruction Override", severity |-> "danger"],
    \* 2: /disregard (all )?(previous|prior|your) (instructions|rules|guidelines)/i
    [pattern |-> <<[t |-> "lit", s |-> <<100, 105, 115, 114, 101, 103, 97, 114, 100, 32>>],
                   [t |-> "opt", s |-> <<97, 108, 108, 32>>],
                   [t |-> "alt", alts |-> <<<<112, 114, 101, 118, 105, 111, 117, 115>>, <<112, 114, 105, 111, 114>>, <<121, 111, 117, 114>>>>],
                   [t |-> "lit", s |-> <<32>>],
                   [t |-> "alt", alts |-> <<<<105, 110, 115, 116, 114, 117, 99, 116, 105, 111, 110, 115>>, <<114, 117, 108, 101, 115>>, <<103, 117, 105, 100, 101, 108, 105, 110, 101, 115>>>>]>>,
     type |-> "Instruction Override", severity |-> "danger"],
    \* 3: /forget (everything|all|your) (you|instructions|rules)/i
    [pattern |-> <<[t |-> "lit", s |-> <<102, 111, 114, 103, 101, 116, 32>>],
                   [t |-> "alt", alts |-> <<<<101, 118, 101, 114, 121, 116, 104, 105, 110, 103>>, <<97, 108, 108>>, <<121, 111, 117, 114>>>>],
                   [t |-> "lit", s |-> <<32>>],
                   [t |-> "alt", alts |-> <<<<121, 111, 117>>, <<105, 110, 115, 116, 114, 117, 99, 116, 105, 111, 110, 115>>, <<114, 117, 108, 101, 115>>>>]>>,
     type |-> "Memory Manipulation", severity |-> "danger"],
    \* 4: /you are now/i
    [pattern |-> <<[t |-> "lit", s |-> <<121, 111, 117, 32, 97, 114, 101, 32, 110, 111, 119>>]>>,
     type |-> "Role Hijacking", severity |-> "danger"],
    \* 5: /act as if/i
    [pattern |-> <<[t |-> "lit", s |-> <<97, 99, 116, 32, 97, 115, 32, 105, 102>>]>>,
     type |-> "Role Hijacking", severity |-> "warning"],
    \* 6: /pretend (to be|you are)/i
    [pattern |-> <<[t |-> "lit", s |-> <<112, 114, 101, 116, 101, 110, 100, 32>>],
                   [t |-> "alt", alts |-> <<<<116, 111, 32, 98, 101>>, <<121, 111, 117, 32, 97, 114, 101>>>>]>>,
     type |-> "Role Hijacking", severity |-> "warning"],
    \* 7: /new (instructions|rules|guidelines):/i
    [pattern |-> <<[t |-> "lit", s |-> <<110, 101, 119, 32>>],
                   [t |-> "alt", alts |-> <<<<105, 110, 115, 116, 114, 117, 99, 116, 105, 111, 110, 115>>, <<114, 117, 108, 101, 115>>, <<103, 117, 105, 100, 101, 108, 105, 110, 101, 115>>>>],
                   [t |-> "lit", s |-> <<58>>]>>,
     type |-> "Instruction Injection", severity |-> "danger"],
    \* 8: /system prompt/i
    [pattern |-> <<[t |-> "lit", s |-> <<115, 121, 115, 116, 101, 109, 32, 112, 114, 111, 109, 112, 116>>]>>,
     type |-> "System Access Attempt", severity |-> "warning"],
    \* 9: /reveal your (instructions|prompt|rules)/i
    [pattern |-> <<[t |-> "lit", s |-> <<114, 101, 118, 101, 97, 108, 32, 121, 111, 117, 114, 32>>],
                   [t |-> "alt", alts |-> <<<<105, 110, 115, 116, 114, 117, 99, 116, 105, 111, 110, 115>>, <<112, 114, 111, 109, 112, 116>>, <<114, 117, 108, 101, 115>>>>]>>,
     type |-> "Prompt Extraction", severity |-> "warning"],
    \* 10: /what (are|were) your (instructions|rules)/i
    [pattern |-> <<[t |-> "lit", s |-> <<119, 104, 97, 116, 32>>],
                   [t |-> "alt", alts |-> <<<<97, 114, 101>>, <<119, 101, 114, 101>>>>],
                   [t |-> "lit", s |-> <<32, 121, 111, 117, 114, 32>>],
                   [t |-> "alt", alts |-> <<<<105, 110, 115, 116, 114, 117, 99, 116, 105, 111, 110, 115>>, <<114, 117, 108, 101, 115>>>>]>>,
     type |-> "Prompt Extraction", severity |-> "warning"],
    \* 11: /\[INST\]/i
    [pattern |-> <<[t |-> "lit", s |-> <<91, 73, 78, 83, 84, 93>>]>>,
     type |-> "Format Injection", severity |-> "danger"],
    \* 12: /<\|im_start\|>/i
    [pattern |-> <<[t |-> "lit", s |-> <<60, 124, 105, 109, 95, 115, 116, 97, 114, 116, 124, 62>>]>>,
     type |-> "Format Injection", severity |-> "danger"],
    \* 13: /\{\{.*\}\}/i
    [pattern |-> <<[t |-> "lit", s |-> <<123, 123>>],
                   [t |-> "star", cls |-> "dot"],
                   [t |-> "lit", s |-> <<125, 125>>]>>,
     type |-> "Template Injection", severity |-> "warning"],
    \* 14: /jailbreak/i
    [pattern |-> <<[t |-> "lit", s |-> <<106, 97, 105, 108, 98, 114, 101, 97, 107>>]>>,
     type |-> "Jailbreak Attempt", severity |-> "danger"],
    \* 15: /DAN mode/i
    [pattern |-> <<[t |-> "lit", s |-> <<68, 65, 78, 32, 109, 111, 100, 101>>]>>,
     type |-> "Jailbreak Attempt", severity |-> "danger"],
    \* 16: /bypass (your|the|all) (restrictions|filters|safety)/i
    [pattern |-> <<[t |-> "lit", s |-> <<98, 121, 112, 97, 115, 115, 32>>],
                   [t |-> "alt", alts |-> <<<<121, 111, 117, 114>>, <<116, 104, 101>>, <<97, 108, 108>>>>],
                   [t |-> "lit", s |-> <<32>>],
                   [t |-> "alt", alts |-> <<<<114, 101, 115, 116, 114, 105, 99, 116, 105, 111, 110, 115>>, <<102, 105, 108, 116, 101, 114, 115>>, <<115, 97, 102, 101, 116, 121>>>>]>>,
     type |-> "Security Bypass", severity |-> "danger"],
    \* 17: /override (your|the|all) (restrictions|filters|safety)/i
    [pattern |-> <<[t |-> "lit", s |-> <<111, 118, 101, 114, 114, 105, 100, 101, 32>>],
                   [t |-> "alt", alts |-> <<<<121, 111, 117, 114>>, <<116, 104, 101>>, <<97, 108, 108>>>>],
                   [t |-> "lit", s |-> <<32>>],
                   [t |-> "alt", alts |-> <<<<114, 101, 115, 116, 114, 105, 99, 116, 105, 111, 110, 115>>, <<102, 105, 108, 116, 101, 114, 115>>, <<115, 97, 102, 101, 116, 121>>>>]>>,
     type |-> "Security Bypass", severity |-> "danger"],
    \* 18: /execute (this|the following) (code|command)/i
    [pattern |-> <<[t |-> "lit", s |-> <<101, 120, 101, 99, 117, 116, 101, 32>>],
                   [t |-> "alt", alts |-> <<<<116, 104, 105, 115>>, <<116, 104, 101, 32, 102, 111, 108, 108, 111, 119, 105, 110, 103>>>>],
                   [t |-> "lit", s |-> <<32>>],
                   [t |-> "alt", alts |-> <<<<99, 111, 100, 101>>, <<99, 111, 109, 109, 97, 110, 100>>>>]>>,
     type |-> "Code Injection", severity |-> "warning"],
    \* 19: /\beval\s*\(/i
    [pattern |-> <<[t |-> "wordb"],
                   [t |-> "lit", s |-> <<101, 118, 97, 108>>],
                   [t |-> "star", cls |-> "space"],
                   [t |-> "lit", s |-> <<40>>]>>,
     type |-> "Code Injection", severity |-> "danger"],
    \* 20: /base64[\s_-]?decode/i
    [pattern |-> <<[t |-> "lit", s |-> <<98, 97, 115, 101, 54, 52>>],
                   [t |-> "optclass", cls |-> "space_-"],
                   [t |-> "lit", s |-> <<100, 101, 99, 111, 100, 101>>]>>,
     type |-> "Encoding Obfuscation", severity |-> "warning"]
  >>

\* text of a finding's description before and after the matched text
DescriptionPrefix == <<68, 101, 116, 101, 99, 116, 101, 100, 32, 112, 97, 116, 116, 101, 114, 110, 58, 32, 34>>
DescriptionSuffix == <<34>>

\* the ellipsis marker '...'
Ellipsis == <<46, 46, 46>>

\* number of characters of context on each side of a match, and of the preview
ContextLen == 20
PreviewLen == 200

(***************************************************************************)
(* analyzeContent                                                          *)
(***************************************************************************)
\* the finding pushed for one match of a rule
Location(text, m, index) ==
  LET start == Max(0, index - ContextLen)
      end == Min(Len(text), index + Len(m) + ContextLen)
      location == Ellipsis \o Slice(text, start, end) \o Ellipsis
  IN  ReplaceNewlines(location)

MakeFinding(text, rule, m) ==
  [type |-> rule.type,
   severity |-> rule.severity,
   description |-> DescriptionPrefix \o m \o DescriptionSuffix,
   location |-> Location(text, m, indexOf(toLowerCase(text), toLowerCase(m)))]

\* RuleFindings with a search that stops at the first match (no g flag)
RuleFindings_FirstOnlyFor(text, rule, matches) ==
  [n \in 1..Min(1, Len(matches)) |-> MakeFinding(text, rule, matches[n])]

RuleFindings_FirstOnly(text, rule) == RuleFindings_FirstOnlyFor(text, rule, match(text, rule.pattern))

\* RuleFindings that puts each finding in front of the earlier ones
RuleFindings_UnshiftFor(text, rule, matches) ==
  [n \in 1..Len(matches) |-> MakeFinding(text, rule, matches[Len(matches) + 1 - n])]

RuleFindings_Unshift(text, rule) == RuleFindings_UnshiftFor(text, rule, match(text, rule.pattern))

\* the findings one rule pushes: one per match, in match order
RuleFindingsFor(text, rule, matches) ==
  [n \in 1..Len(matches) |-> MakeFinding(text, rule, matches[n])]

RuleFindings(text, rule) == RuleFindingsFor(text, rule, match(text, rule.pattern))

\* the findings list after the forEach over the catalog
CollectFindings(text) ==
  Flatten([r \in 1..Len(INJECTION_PATTERNS) |-> RuleFindings(text, INJECTION_PATTERNS[r])])

\* findings.filter(f => f.severity === sev).length
CountSeverity(findings, sev) ==
  Cardinality({n \in 1..Len(findings) : findings[n].severity = sev})

\* Classify with the warning weight of the warning band in the danger band
Classify_WarningWeight(dangerCount, warningCount) ==
  IF dangerCount > 0
  THEN [threatLevel |-> "danger",
        score |-> Min(100, 50 + dangerCount * 20 + warningCount * 10)]
  ELSE IF warningCount > 0
  THEN [threatLevel |-> "warning", score |-> Min(49, 20 + warningCount * 10)]
  ELSE [threatLevel |-> "safe", score |-> 0]

\* Classify without the ceiling of the warning band
Classify_NoWarningCap(dangerCount, warningCount) ==
  IF dangerCount > 0
  THEN [threatLevel |-> "danger",
        score |-> Min(100, 50 + dangerCount * 20 + warningCount * 5)]
  ELSE IF warningCount > 0
  THEN [threatLevel |-> "warning", score |-> 20 + warningCount * 10]
  ELSE [threatLevel |-> "safe", score |-> 0]

\* Classify without the ceiling of the danger band
Classify_NoCap(dangerCount, warningCount) ==
  IF dangerCount > 0
  THEN [threatLevel |-> "danger",
        score |-> 50 + dangerCount * 20 + warningCount * 5]
  ELSE IF warningCount > 0
  THEN [threatLevel |-> "warning", score |-> Min(49, 20 + warningCount * 10)]
  ELSE [threatLevel |-> "safe", score |-> 0]

\* Classify with a plain else in place of the else-if of the warning band
Classify_ElseWarning(dangerCount, warningCount) ==
  IF dangerCount > 0
  THEN [threatLevel |-> "danger",
        score |-> Min(100, 50 + dangerCount * 20 + warningCount * 5)]
  ELSE [threatLevel |-> "warning", score |-> Min(49, 20 + warningCount * 10)]

\* Classify that wraps the danger score into 0..99 instead of capping it
Classify_Wrap(dangerCount, warningCount) ==
  IF dangerCount > 0
  THEN [threatLevel |-> "danger",
        score |-> (50 + dangerCount * 20 + warningCount * 5) % 100]
  ELSE IF warningCount > 0
  THEN [threatLevel |-> "warning", score |-> Min(49, 20 + warningCount * 10)]
  ELSE [threatLevel |-> "safe", score |-> 0]

\* threatLevel and score from the two counts
Classify(dangerCount, warningCount) ==
  IF dangerCount > 0
  THEN [threatLevel |-> "danger",
        score |-> Min(100, 50 + dangerCount * 20 + warningCount * 5)]
  ELSE IF warningCount > 0
  THEN [threatLevel |-> "warning", score |-> Min(49, 20 + warningCount * 10)]
  ELSE [threatLevel |-> "safe", score |-> 0]

\* Preview that adds the marker from 200 characters on (>= for >)
Preview_AtLeast(text) ==
  Slice(text, 0, PreviewLen) \o (IF Len(text) >= PreviewLen THEN Ellipsis ELSE <<>>)

\* Preview that keeps one character more (slice(0, 201))
Preview_OneMore(text) ==
  Slice(text, 0, PreviewLen + 1) \o (IF Len(text) > PreviewLen THEN Ellipsis ELSE <<>>)

\* content.slice(0, 200) + (content.length > 200 ? '...' : '')
Preview(text) ==
  Slice(text, 0, PreviewLen) \o (IF Len(text) > PreviewLen THEN Ellipsis ELSE <<>>)

\* the returned object
ScanResult(level, findings, text) ==
  [threatLevel |-> level.threatLevel,
   score |-> level.score,
   findings |-> findings,
   scannedContent |-> Preview(text)]

\* analyzeContent from the findings on
Summarise(findings, text) ==
  ScanResult(Classify(CountSeverity(findings, "danger"), CountSeverity(findings, "warning")),
             findings, text)

analyzeContent(text) == Summarise(CollectFindings(text), text)

(***************************************************************************)
(* The inputs of the model: texts put together from a few fragments.       *)
(***************************************************************************)
Fragments ==
  <<
    <<106, 97, 105, 108, 98, 114, 101, 97, 107>>,   \* "jailbreak"
    <<74, 65, 73, 76, 66, 82, 69, 65, 75>>,         \* "JAILBREAK"
    <<80, 114, 101, 116, 101, 110, 100, 32, 89, 111, 117, 32, 65, 114, 101, 32, 78, 111, 119>>,   \* "Pretend You Are Now"
    <<97, 99, 116, 32, 97, 115, 32, 105, 102>>,     \* "act as if"
    <<123, 123>>,                                   \* "{{"
    <<125, 125>>,                                   \* "}}"
    <<10>>,                                         \* "\n"
    <<101, 118, 97, 108>>,                          \* "eval"
    <<40>>,                                         \* "("
    <<304>>                                         \* U+0130
  >>

\* the characters of a padding: "x" and U+0130
PadChars == {120, 304}

\* the padding: n times the character c
Padding(c, n) == [i \in 1..n |-> c]

\* sequences of at most n fragment numbers
FragSeqs(n) == UNION {[1..k -> 1..Len(Fragments)] : k \in 0..n}

\* the text a sequence of fragment numbers spells
Spell(fs) == Flatten([i \in 1..Len(fs) |-> Fragments[fs[i]]])

ShortInputs == {Spell(fs) : fs \in FragSeqs(MaxFrags)}
LongInputs == {Padding(c, PadLen) \o Spell(fs) : c \in PadChars, fs \in FragSeqs(MaxPadFrags)}
Inputs == ShortInputs \cup LongInputs
EditInputs == {Spell(fs) : fs \in FragSeqs(MaxEditFrags)}

\* the value of result before an analysis
Null == [null |-> TRUE]

\* the value of edit while the text has not been edited
NoEdit == [at |-> -1, inserted |-> <<>>, score |-> 0]

\* no RegExp of the catalog has been used: lastIndex is 0 in each
FreshCatalog == [r \in 1..Len(INJECTION_PATTERNS) |-> 0]

\* no caller is inside analyzeContent
NoCalls == lastIndex = FreshCatalog /\ calls = <<>>

\* the App as mounted (useState initial values), no timer, no reader
IdleUI ==
  /\ status = "idle"
  /\ progress = 0
  /\ timers = <<>>
  /\ readers = <<>>
  /\ textInput = <<>>
  /\ urlInput = <<>>

Init ==
  /\ content \in Inputs
  /\ result = Null
  /\ op = "init"
  /\ edit = NoEdit
  /\ NoCalls
  /\ IdleUI

\* one call analyzeContent(content)
Analyze ==
  /\ op = "init"
  /\ result' = analyzeContent(content)
  /\ op' = "analyze"
  /\ UNCHANGED <<content, edit, callVars, uiVars>>

Next == Analyze

Spec == Init /\ [][Next]_vars

\* the texts matched by the danger rules in the text
DangerMatches(text) ==
  UNION {LET matches == match(text, INJECTION_PATTERNS[r].pattern)
         IN  {matches[n] : n \in 1..Len(matches)} :
         r \in {q \in 1..Len(INJECTION_PATTERNS) : INJECTION_PATTERNS[q].severity = "danger"}}

\* the text with m inserted at offset pos
Insert(text, pos, m) == Slice(text, 0, pos) \o m \o Slice(text, pos, Len(text))

\* the caller adds one more occurrence of a text that a danger rule has
\* matched, at any offset, and has the new text analysed
AddOccurrence ==
  /\ op = "analyze"
  /\ \E m \in DangerMatches(content) : \E pos \in 0..Len(content) :
       /\ content' = Insert(content, pos, m)
       /\ result' = analyzeContent(Insert(content, pos, m))
       /\ edit' = [at |-> pos, inserted |-> m, score |-> result.score]
  /\ op' = "add"
  /\ UNCHANGED <<callVars, uiVars>>

InitEdit ==
  /\ content \in EditInputs
  /\ result = Null
  /\ op = "init"
  /\ edit = NoEdit
  /\ NoCalls
  /\ IdleUI

NextEdit ==
  \/ Analyze
  \/ AddOccurrence

SpecEdit == InitEdit /\ [][NextEdit]_vars

(***************************************************************************)
(* Concurrent callers of analyzeContent.  A call runs the forEach over the *)
(* catalog one rule at a time and then builds its result; the steps of     *)
(* different callers interleave in any order (a call that runs to          *)
(* completion, as on one JavaScript thread, is one of the interleavings).  *)
(* findings is a local of the call; the catalog is shared by all calls.    *)
(***************************************************************************)
\* the number of callers
MaxCallers == 2

\* the texts the callers pass: "JAILBREAKjailbreak" and "eval("
CallInputs == {Spell(<<2, 1>>), Spell(<<8, 9>>)}

\* a caller that is not inside analyzeContent and has not called it yet
IdleCall ==
  [pc |-> "idle", text |-> <<>>, k |-> 0, findings |-> <<>>, result |-> Null,
   overlapped |-> FALSE]

\* the matches of one rule as a call would get them from the RegExp of the
\* catalog itself, were it global: the search starts at its lastIndex and
\* leaves lastIndex behind the first match
RuleMatch_Shared(text, rule, li) ==
  [matches   |-> Substrings(text, MatchSpans(rule.pattern, text, Min(li, Len(text)))),
   lastIndex |-> IF ExecFrom(rule.pattern, text, Min(li, Len(text))) = <<>>
                 THEN 0
                 ELSE ExecFrom(rule.pattern, text, Min(li, Len(text)))[2]]

\* content.match(new RegExp(pattern, 'gi')) for one rule whose catalog RegExp
\* has lastIndex li: the search runs on a new RegExp object, from offset 0,
\* and the RegExp of the catalog keeps its lastIndex
RuleMatch(text, rule, li) ==
  [matches |-> match(text, rule.pattern), lastIndex |-> li]

\* some caller other than c is inside analyzeContent
OthersRunning(c) == \E d \in DOMAIN calls : d # c /\ calls[d].pc = "running"

\* caller c calls analyzeContent(text): const findings = []
Call(c) ==
  /\ calls[c].pc \in {"idle", "returned"}
  /\ \E text \in CallInputs :
       calls' = [calls EXCEPT ![c] = [pc |-> "running", text |-> text, k |-> 0,
                                      findings |-> <<>>, result |-> Null,
                                      overlapped |-> FALSE]]
  /\ UNCHANGED <<lastIndex, content, result, op, edit, uiVars>>

\* the state after the forEach callback of rule r in the call of caller c,
\* given what the match of line 47 produced
AfterRule(c, r, m) ==
  /\ calls' = [calls EXCEPT ![c].k = r,
                            ![c].findings = @ \o RuleFindingsFor(calls[c].text,
                                                                 INJECTION_PATTERNS[r],
                                                                 m.matches),
                            ![c].overlapped = @ \/ OthersRunning(c)]
  /\ lastIndex' = [lastIndex EXCEPT ![r] = m.lastIndex]

\* one forEach callback of the call of caller c: the next rule of the catalog
RuleStep(c) ==
  /\ calls[c].pc = "running"
  /\ calls[c].k < Len(INJECTION_PATTERNS)
  /\ AfterRule(c, calls[c].k + 1,
               RuleMatch(calls[c].text, INJECTION_PATTERNS[calls[c].k + 1],
                         lastIndex[calls[c].k + 1]))
  /\ UNCHANGED <<content, result, op, edit, uiVars>>

\* the call of caller c counts, classifies and returns
Return(c) ==
  /\ calls[c].pc = "running"
  /\ calls[c].k = Len(INJECTION_PATTERNS)
  /\ calls' = [calls EXCEPT ![c].pc = "returned",
                            ![c].result = Summarise(calls[c].findings, calls[c].text)]
  /\ UNCHANGED <<lastIndex, content, result, op, edit, uiVars>>

InitCalls ==
  /\ content = <<>>
  /\ result = Null
  /\ op = "init"
  /\ edit = NoEdit
  /\ lastIndex = FreshCatalog
  /\ calls = [c \in 1..MaxCallers |-> IdleCall]
  /\ IdleUI

NextCalls ==
  \/ \E c \in 1..MaxCallers : Call(c)
  \/ \E c \in 1..MaxCallers : RuleStep(c)
  \/ \E c \in 1..MaxCallers : Return(c)

SpecCalls == InitCalls /\ [][NextCalls]_vars

(***************************************************************************)
(* The App component: the scan handlers, simulateScan and its timer.       *)
(*                                                                         *)
(* A handler runs to completion and React applies its state updates        *)
(* together, so each handler and each timer callback is one action.  The   *)
(* inputs and the scan buttons are rendered only while status is 'idle',   *)
(* the reset button only while status is 'complete' and result is set;     *)
(* the onload of a FileReader and the callback of a timer fire whenever    *)
(* the browser delivers them.  The tab shown (activeTab) and dragActive    *)
(* only choose which of the inputs is on screen and are left out: every    *)
(* tab can be reached by a click while status is 'idle'.                   *)
(***************************************************************************)
\* the number of simulateScan calls followed
MaxScans == 2

\* const duration = 2500, const interval = 50 (milliseconds)
duration == 2500
interval == 50

\* what the user may type into the textarea: nothing, or " jailbreak"
TextValues == {<<>>, <<32>> \o Fragments[1]}

\* what the user may type into the URL field: nothing, blanks, or "x"
UrlValues == {<<>>, <<32, 32>>, <<120>>}

\* the files the user may drop or select: one file, whose text is "eval("
Files == {[text |-> Spell(<<8, 9>>)]}

\* e.dataTransfer.files[0] or e.target.files?.[0] when no file was given
NoFile == [undefined |-> TRUE]

\* `URL Content from: ${urlInput}\n\nSimulated content for demonstration. ...`
UrlContentPrefix ==
  <<85, 82, 76, 32, 67, 111, 110, 116, 101, 110, 116, 32, 102, 114, 111,
  109, 58, 32>>
UrlContentSuffix ==
  <<10, 10, 83, 105, 109, 117, 108, 97, 116, 101, 100, 32, 99, 111, 110,
  116, 101, 110, 116, 32, 102, 111, 114, 32, 100, 101, 109, 111, 110, 115,
  116, 114, 97, 116, 105, 111, 110, 46, 32, 73, 110, 32, 112, 114, 111,
  100, 117, 99, 116, 105, 111, 110, 44, 32, 116, 104, 105, 115, 32, 119,
  111, 117, 108, 100, 32, 102, 101, 116, 99, 104, 32, 97, 110, 100, 32,
  97, 110, 97, 108, 121, 122, 101, 32, 116, 104, 101, 32, 97, 99, 116,
  117, 97, 108, 32, 85, 82, 76, 32, 99, 111, 110, 116, 101, 110, 116, 46>>

UrlContent(url) == UrlContentPrefix \o url \o UrlContentSuffix

\* String.prototype.trim
TrimSpan(s, kept) ==
  IF kept = {} THEN <<>> ELSE Slice(s, Least(kept) - 1, Greatest(kept))

trim(s) == TrimSpan(s, {i \in 1..Len(s) : ~IsSpace(s[i])})

\* Math.min((elapsed / duration) * 100, 100); elapsed is a multiple of
\* interval, so the quotient is taken exactly
NewProgress(elapsed) == Min((elapsed * 100) \div duration, 100)

\* the timers that have not been cleared
ActiveTimers == {i \in DOMAIN timers : timers[i].active}

\* simulateScan(text): the three state updates, then setInterval with
\* elapsed = 0 in the closure of the new timer; no earlier timer is cleared
simulateScan(text) ==
  /\ Len(timers) < MaxScans
  /\ status' = "scanning"
  /\ progress' = 0
  /\ result' = Null
  /\ timers' = Append(timers, [content |-> text, elapsed |-> 0, active |-> TRUE,
                               analysed |-> 0])

\* textarea onChange: setTextInput(e.target.value)
SetTextInput ==
  /\ status = "idle"
  /\ \E v \in TextValues : textInput' = v
  /\ UNCHANGED <<content, result, op, edit, callVars, status, progress, timers, readers,
                 urlInput>>

\* URL field onChange: setUrlInput(e.target.value)
SetUrlInput ==
  /\ status = "idle"
  /\ \E v \in UrlValues : urlInput' = v
  /\ UNCHANGED <<content, result, op, edit, callVars, status, progress, timers, readers,
                 textInput>>

handleTextScan ==
  /\ status = "idle"
  /\ trim(textInput) # <<>>
  /\ simulateScan(textInput)
  /\ UNCHANGED <<content, op, edit, callVars, readers, textInput, urlInput>>

handleUrlScan ==
  /\ status = "idle"
  /\ trim(urlInput) # <<>>
  /\ simulateScan(UrlContent(urlInput))
  /\ UNCHANGED <<content, op, edit, callVars, readers, textInput, urlInput>>

\* new FileReader(), reader.onload = ..., reader.readAsText(file): the
\* reader is pending until its onload fires; nothing happens without a file
ReadFile(file) ==
  /\ Len(timers) + Len(readers) < MaxScans
  /\ readers' = IF file = NoFile THEN readers ELSE Append(readers, file.text)
  /\ UNCHANGED <<content, result, op, edit, callVars, status, progress, timers,
                 textInput, urlInput>>

handleFileDrop ==
  /\ status = "idle"
  /\ \E file \in Files \cup {NoFile} : ReadFile(file)

handleFileSelect ==
  /\ status = "idle"
  /\ \E file \in Files \cup {NoFile} : ReadFile(file)

\* the sequence without its element n
Remove(seq, n) == [i \in 1..(Len(seq) - 1) |-> IF i < n THEN seq[i] ELSE seq[i + 1]]

\* reader.onload of a pending reader: simulateScan(content), whatever the
\* status is by now
ReaderLoad ==
  /\ \E n \in DOMAIN readers :
       /\ simulateScan(readers[n])
       /\ readers' = Remove(readers, n)
  /\ UNCHANGED <<content, op, edit, callVars, textInput, urlInput>>

\* the callback of timer t with its elapsed already advanced to e: the
\* progress update, and at the end of the duration clearInterval, the
\* analysis and the completion
TimerCallback(t, e) ==
  /\ progress' = NewProgress(e)
  /\ IF e >= duration
     THEN /\ timers' = [timers EXCEPT ![t].elapsed = e, ![t].active = FALSE,
                                      ![t].analysed = @ + 1]
          /\ result' = analyzeContent(timers[t].content)
          /\ status' = "complete"
     ELSE /\ timers' = [timers EXCEPT ![t].elapsed = e]
          /\ UNCHANGED <<result, status>>

\* one tick of a timer that has not been cleared; the browser may deliver
\* the ticks of two timers in either order
Tick ==
  /\ \E t \in ActiveTimers : TimerCallback(t, timers[t].elapsed + interval)
  /\ UNCHANGED <<content, op, edit, callVars, readers, textInput, urlInput>>

resetScan ==
  /\ status = "complete"
  /\ result # Null
  /\ status' = "idle"
  /\ progress' = 0
  /\ result' = Null
  /\ UNCHANGED <<content, op, edit, callVars, timers, readers, textInput, urlInput>>

InitUI ==
  /\ content = <<>>
  /\ result = Null
  /\ op = "init"
  /\ edit = NoEdit
  /\ NoCalls
  /\ IdleUI

NextUI ==
  \/ SetTextInput
  \/ SetUrlInput
  \/ handleTextScan
  \/ handleUrlScan
  \/ handleFileDrop
  \/ handleFileSelect
  \/ ReaderLoad
  \/ Tick
  \/ resetScan

SpecUI == InitUI /\ [][NextUI]_vars

(***************************************************************************)
(* Properties of one analysis.  Analysed holds in the states in which      *)
(* result is the value analyzeContent returned for content.                *)
(***************************************************************************)
Analysed == op # "init"

\* the numbers of findings of each severity in the returned result
NumDanger == Cardinality({n \in DOMAIN result.findings : result.findings[n].severity = "danger"})
NumWarning == Cardinality({n \in DOMAIN result.findings : result.findings[n].severity = "warning"})

\* C1: the threat level and the score are the stated function of the numbers
\* of danger and warning findings: any danger finding gives danger and
\* min(100, 50 + 20*danger + 5*warning); otherwise any warning finding gives
\* warning and min(49, 20 + 10*warning); otherwise safe and 0.
C1_ScoreFormula ==
  Analysed =>
    IF NumDanger > 0
    THEN /\ result.threatLevel = "danger"
         /\ result.score = Min(100, 50 + 20 * NumDanger + 5 * NumWarning)
    ELSE IF NumWarning > 0
    THEN /\ result.threatLevel = "warning"
         /\ result.score = Min(49, 20 + 10 * NumWarning)
    ELSE /\ result.threatLevel = "safe"
         /\ result.score = 0

\* a result with one danger and one warning finding, below the cap: 50 + 20 + 5
C1_Witness ==
  /\ Analysed
  /\ NumDanger = 1
  /\ NumWarning = 1
  /\ result.threatLevel = "danger"
  /\ result.score = 75

\* C2: band separation: a danger result scores at least 50, a warning result
\* at most 49 (so less than any danger result), a safe result 0.
C2_BandSeparation ==
  Analysed =>
    /\ result.threatLevel = "danger" => result.score >= 50
    /\ result.threatLevel = "warning" => result.score <= 49
    /\ result.threatLevel = "safe" => result.score = 0

\* a warning result that the ceiling of its band cuts: three warnings, 20 + 30 > 49
C2_Witness ==
  /\ Analysed
  /\ result.threatLevel = "warning"
  /\ NumWarning >= 3
  /\ result.score = 49

\* C3: the score is an integer of 0..100 whatever the number of findings.
C3_ScoreCap ==
  Analysed => result.score \in 0..100

\* a danger result whose uncapped score 50 + 20*danger + 5*warning exceeds 100
C3_Witness ==
  /\ Analysed
  /\ 50 + 20 * NumDanger + 5 * NumWarning > 100
  /\ result.score = 100

\* no rule of the catalog matches anywhere in the text
NoRuleMatches(text) ==
  \A r \in 1..Len(INJECTION_PATTERNS) : \A i \in 0..Len(text) :
    MatchFrom(INJECTION_PATTERNS[r].pattern, 1, text, i) = -1

\* C4: a text in which no rule matches, the empty text included, gets the
\* result safe, score 0, no findings; the preview of the empty text is empty.
C4_SafeBaseline ==
  (Analysed /\ NoRuleMatches(content)) =>
    /\ result.threatLevel = "safe"
    /\ result.score = 0
    /\ result.findings = <<>>
    /\ (content = <<>> => result.scannedContent = <<>>)

\* the empty text has been analysed
C4_Witness ==
  /\ Analysed
  /\ content = <<>>
  /\ result.findings = <<>>

RECURSIVE SumTo(_, _)
\* f[1] + ... + f[n]
SumTo(f, n) == IF n = 0 THEN 0 ELSE f[n] + SumTo(f, n - 1)

\* the number of non-overlapping case-insensitive matches of each rule
MatchCounts(text) ==
  [r \in 1..Len(INJECTION_PATTERNS) |-> Len(MatchSpans(INJECTION_PATTERNS[r].pattern, text, 0))]

\* C5: the number of findings is the sum over the rules of the number of
\* non-overlapping case-insensitive matches of the rule's pattern in the text.
C5_FindingCount ==
  Analysed =>
    Len(result.findings) = SumTo(MatchCounts(content), Len(INJECTION_PATTERNS))

\* a text in which one rule matches twice and another rule matches as well
C5_Witness ==
  /\ Analysed
  /\ Len(result.findings) = 3
  /\ LET counts == MatchCounts(content)
     IN  \E r \in 1..Len(INJECTION_PATTERNS) :
           /\ counts[r] = 2
           /\ \E q \in 1..Len(INJECTION_PATTERNS) : q # r /\ counts[q] = 1

\* the matches of the whole catalog: <<rule number, start offset, end offset>>
AllMatches(text) ==
  UNION {LET spans == MatchSpans(INJECTION_PATTERNS[r].pattern, text, 0)
         IN  {<<r, spans[n][1], spans[n][2]>> : n \in 1..Len(spans)} :
         r \in 1..Len(INJECTION_PATTERNS)}

\* catalog order first, text order among the matches of one rule
Before(p, q) == p[1] < q[1] \/ (p[1] = q[1] /\ p[2] < q[2])

\* the place of the match p among the matches M in that order
Rank(M, p) == 1 + Cardinality({q \in M : Before(q, p)})

\* C6: the findings are in catalog order of their rules and, for one rule, in
\* the order of the matches in the text; each carries the category and the
\* severity of its rule (and its description names the matched text).
C6_FindingsOrder ==
  Analysed =>
    LET M == AllMatches(content)
    IN  /\ Len(result.findings) = Cardinality(M)
        /\ \A p \in M :
             LET f == result.findings[Rank(M, p)]
             IN  /\ f.type = INJECTION_PATTERNS[p[1]].type
                 /\ f.severity = INJECTION_PATTERNS[p[1]].severity
                 /\ f.description = DescriptionPrefix \o Slice(content, p[2], p[3]) \o DescriptionSuffix

\* a later rule matches earlier in the text than an earlier rule, and one rule
\* matches two different spellings
C6_Witness ==
  /\ Analysed
  /\ \E p, q \in AllMatches(content) : p[1] < q[1] /\ q[2] < p[2]
  /\ \E p, q \in AllMatches(content) :
       /\ p[1] = q[1]
       /\ p[2] < q[2]
       /\ Slice(content, p[2], p[3]) # Slice(content, q[2], q[3])

\* C7: the preview of a text longer than 200 characters is its first 200
\* characters followed by the ellipsis marker; the preview of a text of at most
\* 200 characters is the text itself.
C7_PreviewContent ==
  Analysed =>
    IF Len(content) > 200
    THEN result.scannedContent = SubSeq(content, 1, 200) \o <<46, 46, 46>>
    ELSE result.scannedContent = content

\* a text of exactly 200 characters has been analysed
C7_Witness ==
  /\ Analysed
  /\ Len(content) = 200
  /\ result.scannedContent = content

\* C8 as stated: the preview of a text longer than 200 characters has 201
\* characters plus the length of the ellipsis marker.
C8_PreviewLength201 ==
  (Analysed /\ Len(content) > 200) => Len(result.scannedContent) = 201 + 3

\* C8 amended: the preview of a text longer than 200 characters has 200
\* characters plus the length of the ellipsis marker.
C8_PreviewLength ==
  (Analysed /\ Len(content) > 200) => Len(result.scannedContent) = 200 + 3

\* a text longer than 200 characters has been analysed and cut
C8_Witness ==
  /\ Analysed
  /\ Len(content) > 201
  /\ Len(result.scannedContent) < Len(content)

(***************************************************************************)
(* The excerpt of a finding.                                               *)
(***************************************************************************)
\* two characters are the same letter up to case
CaseEq(a, b) == LowerUnit(a) = LowerUnit(b)

\* m occurs in the text at offset i, up to case
OccursFoldedAt(text, m, i) ==
  /\ i + Len(m) <= Len(text)
  /\ \A j \in 1..Len(m) : CaseEq(text[i + j], m[j])

\* the offsets in the text at which m occurs up to case
FoldedOccurrences(text, m) == {i \in 0..Len(text) : OccursFoldedAt(text, m, i)}

\* the window the claim describes around offset i for the matched text m
Window(text, m, i) ==
  ReplaceNewlines(<<46, 46, 46>>
                  \o Slice(text, Max(0, i - 20), Min(Len(text), i + Len(m) + 20))
                  \o <<46, 46, 46>>)

\* C10: the excerpt of every finding is the marker, the slice of the input from
\* max(0, i - 20) to min(length, i + len(match) + 20), the marker, with newlines
\* replaced by spaces, i being the offset of the first case-insensitive
\* occurrence of the matched text in the input; so it contains the matched text
\* (up to case, its newlines shown as spaces) with at most 20 characters of
\* context on each side, and no newline.
C10_ExcerptWindow ==
  Analysed =>
    LET M == AllMatches(content)
    IN  \A p \in M :
          LET f == result.findings[Rank(M, p)]
              m == Slice(content, p[2], p[3])
              i == Least(FoldedOccurrences(content, m))
          IN  /\ f.location = Window(content, m, i)
              /\ FoldedOccurrences(f.location, ReplaceNewlines(m)) # {}
              /\ Len(f.location) <= 3 + 20 + Len(m) + 20 + 3
              /\ \A n \in 1..Len(f.location) : f.location[n] # 10

\* the text holds U+0130, the character whose lower case is two code units
HasDottedI(text) == \E n \in 1..Len(text) : text[n] = 304

\* C10 on the texts whose lower case has their own length: the claim as stated
\* holds of them
C10_ExcerptWindowSameLength ==
  HasDottedI(content) \/ C10_ExcerptWindow

\* a finding whose excerpt does not show the matched text at all
C10_ExcerptLosesMatch ==
  /\ Analysed
  /\ \E n \in 1..Len(result.findings) : result.findings[n].location = <<46, 46, 46, 46, 46, 46>>

(***************************************************************************)
(* Adding an occurrence of a matched danger pattern.                       *)
(***************************************************************************)
\* C9 as stated: one more occurrence of a matched danger text, added at any
\* position, never lowers the score.
C9_MonotoneAnywhere ==
  op = "add" => result.score >= edit.score

\* the text before the edit
Original == Slice(content, 0, edit.at) \o Slice(content, edit.at + Len(edit.inserted), Len(content))

\* the edit fell strictly inside a span that some rule matched in the text
SplitsMatch == \E p \in AllMatches(Original) : p[2] < edit.at /\ edit.at < p[3]

\* C9 amended: one more occurrence of a matched danger text, added at a
\* position that is not strictly inside a span matched by a rule (the start
\* and the end of the text are such positions), never lowers the score: an
\* added occurrence that lowers the score was put inside a matched span.
C9_MonotoneOutsideMatches ==
  (op = "add" /\ result.score < edit.score) => SplitsMatch

\* an occurrence has been added between two matches and the score has risen
C9_Witness ==
  /\ op = "add"
  /\ ~SplitsMatch
  /\ edit.at > 0
  /\ edit.at < Len(Original)
  /\ result.score > edit.score

(***************************************************************************)
(* Properties of concurrent calls.                                         *)
(***************************************************************************)
\* what analyzeContent returns for each text when it is the only call
AloneResult == [text \in CallInputs |-> analyzeContent(text)]

\* C11: Purity under concurrency: in every interleaving and repetition of
\* analyzeContent calls, each call that has returned has returned exactly
\* the result analyzeContent gives for its text when run alone, and the
\* rule catalog, the lastIndex of every pattern included, is as it was
\* before any call.
C11_Purity ==
  /\ lastIndex = FreshCatalog
  /\ \A c \in DOMAIN calls :
       calls[c].pc = "returned" => calls[c].result = AloneResult[calls[c].text]

\* a call that ran interleaved with another caller's call has returned two
\* findings while the other caller is still inside its call on another text
C11_Witness ==
  \E c \in DOMAIN calls : \E d \in DOMAIN calls :
    /\ calls[c].pc = "returned"
    /\ calls[c].overlapped
    /\ Len(calls[c].result.findings) = 2
    /\ calls[d].pc = "running"
    /\ calls[d].k > 0
    /\ calls[d].text # calls[c].text

(***************************************************************************)
(* Properties of the App's scan timer.                                     *)
(***************************************************************************)
\* a step that is a call of simulateScan: a timer is created
ScanStarts == Len(timers') > Len(timers)

\* at most one timer that has not been cleared
AtMostOneTimer == Cardinality(ActiveTimers) <= 1

\* from 'complete', status and result stay as they are unless the step is
\* resetScan or starts a scan
CompleteIsStable ==
  status = "complete" =>
    \/ status' = "complete" /\ result' = result
    \/ status' = "idle"
    \/ ScanStarts

\* status leaves 'idle' only by the start of a scan
IdleIsStable == (status = "idle" /\ status' # "idle") => ScanStarts

\* C12: across any sequence of UI events at most one scan timer is active at
\* a time; once status is 'complete' the result and the status do not
\* change until resetScan or a new scan is started, and while status is
\* 'idle' it stays 'idle' until a new scan is started.
C12_SingleTimer ==
  /\ []AtMostOneTimer
  /\ [][CompleteIsStable]_vars
  /\ [][IdleIsStable]_vars

\* the result on screen is replaced by the result of another scan although
\* nothing was reset and no scan was started
C12_ResultReplaced ==
  [][(status = "complete" /\ ~ScanStarts /\ status' = "complete") => result' = result]_vars

\* a scan completes on the idle screen although no scan was started
C12_CompletesFromIdle == [][status = "idle" => status' # "complete"]_vars

\* the timer of the last call of simulateScan
LastTimer == Len(timers)

\* a timer is cleared exactly when it has run for the duration, and has
\* then analysed its content once; the progress is within 0..100 and the
\* result is set whenever status is 'complete'
TimerState ==
  /\ \A t \in DOMAIN timers :
       /\ timers[t].elapsed \in 0..duration
       /\ timers[t].active <=> timers[t].elapsed < duration
       /\ timers[t].analysed = (IF timers[t].active THEN 0 ELSE 1)
  /\ progress \in 0..100
  /\ status = "complete" => result # Null

\* a call of simulateScan sets status 'scanning', progress 0, result null
StartStep == ScanStarts => (status' = "scanning" /\ progress' = 0 /\ result' = Null)

\* status becomes 'complete' by the 50th tick of the timer of the last
\* call, with progress 100 and the result of the analysis of its content
CompletionStep ==
  (status # "complete" /\ status' = "complete") =>
    /\ timers[LastTimer].elapsed = duration - interval
    /\ timers'[LastTimer].elapsed = duration
    /\ ~timers'[LastTimer].active
    /\ progress' = 100
    /\ result' = analyzeContent(timers[LastTimer].content)

\* while a scan runs the progress does not go down
ProgressStep ==
  (status = "scanning" /\ status' # "idle" /\ ~ScanStarts) => progress' >= progress

\* once a scan is complete no tick changes the state shown
ClearedStep ==
  (status = "complete" /\ status' = "complete" /\ ~ScanStarts) =>
    (progress' = progress /\ result' = result)

\* C13: every call of simulateScan sets status 'scanning' with progress 0
\* and result null; status becomes 'complete' at the 50th tick of the
\* timer of that call, with progress non-decreasing in 0..100 on the way
\* and 100 at completion, the content analysed exactly once, the result
\* non-null whenever status is 'complete', and the timer cleared so that no
\* further tick changes the state.
C13_ScanLifecycle ==
  /\ []TimerState
  /\ [][StartStep]_vars
  /\ [][CompletionStep]_vars
  /\ [][ProgressStep]_vars
  /\ [][ClearedStep]_vars

\* the parts of the lifecycle that hold of every timer on its own
C13_OwnTimer == []TimerState /\ [][StartStep]_vars

\* the progress shown goes down while a scan runs
C13_ProgressMonotone == [][ProgressStep]_vars

\* status becomes 'complete' before the timer of the last call has ended
C13_CompletesAtFiftiethTick == [][CompletionStep]_vars

\* while no more than one scan has been started, the whole lifecycle holds
C13_LoneScanLifecycle ==
  [][Len(timers') <= 1 => (CompletionStep /\ ProgressStep /\ ClearedStep)]_vars

====
